---- MODULE Spec2Model ----
(***************************************************************************)
(* Streaming response protocol of the Excel Agent front end.               *)
(*                                                                         *)
(* Two clients consume the same message protocol:                          *)
(*   "sse" : class ExcelAgentWithSSE (src/frontend/app.js), one            *)
(*           EventSource per question;                                     *)
(*   "ws"  : class ExcelAgent (src/unnamed/part_001), one reconnecting     *)
(*           WebSocket, text and voice requests.                           *)
(* The DOM is abstracted to what the protocol builds: the list of          *)
(* sections appended to streaming documents, the per content-type live     *)
(* handles (activeComponents), the loading indicator and the disabled      *)
(* flags of the controls, and the number of visible error messages.        *)
(***************************************************************************)
EXTENDS Integers, Sequences, FiniteSets, TLC

\* ------------------------------------------------------------------ bounds
MaxMsgs == 2
MaxReq == 1
MaxFail == 1
MaxVoice == 2
MaxFrags == 3
MaxClose == 2

\* the delay of the reconnect timer, in milliseconds
ReconnectDelay == 3000

\* ------------------------------------------------------------ value spaces
Types == {"code", "data", "result", "error", "text"}

\* a field that is absent from the JSON message reads as undefined
Absent == "<absent>"

\* an answer is a string, modelled as its sequence of lexemes; Undefined is
\* the value of a missing answer field (not a string)
Undefined == <<"<undefined>">>

IsString(a) == a # Undefined

\* lexemes of the code fences (three backquotes, with and without the
\* language tag)
FencePython == "<fence>python"
Fence == "<fence>"

\* ------------------------------------------------------- pure conversions

\* switch (content_type) of the reducer: the slot a message is dispatched to
NormalizeType_DefaultIsCode(ct) ==
    CASE ct = "code" -> "code"
      [] ct = "data" -> "data"
      [] ct = "result" -> "result"
      [] ct = "error" -> "error"
      [] ct = "text" -> "text"
      [] OTHER -> "code"

NormalizeType(ct) ==
    CASE ct = "code" -> "code"
      [] ct = "data" -> "data"
      [] ct = "result" -> "result"
      [] ct = "error" -> "error"
      [] OTHER -> "text"

\* switch (status) of the five handle*Content methods
NormalizeStatus_DefaultIsStart(cs) ==
    CASE cs = "start" -> "start"
      [] cs = "in_progress" -> "in_progress"
      [] cs = "end" -> "end"
      [] OTHER -> "start"

NormalizeStatus(cs) ==
    CASE cs = "start" -> "start"
      [] cs = "in_progress" -> "in_progress"
      [] cs = "end" -> "end"
      [] OTHER -> "in_progress"

\* the fence-stripping replace of appendToCodeBlock, on the lexemes of the
\* fragment: an opening python fence with an optional following line break,
\* or a closing fence with an optional preceding line break, is removed
RECURSIVE CleanCode(_)
CleanCode(s) ==
    IF s = <<>> THEN <<>>
    ELSE LET h == Head(s)
             t == Tail(s)
         IN  CASE h = FencePython ->
                    IF t # <<>> /\ Head(t) = "\n" THEN CleanCode(Tail(t))
                    ELSE CleanCode(t)
               [] h = Fence -> CleanCode(t)
               [] h = "\n" /\ t # <<>> /\ Head(t) = Fence -> CleanCode(Tail(t))
               [] h = "\n" /\ t # <<>> /\ Head(t) = FencePython ->
                    <<"python">> \o CleanCode(Tail(t))
               [] OTHER -> <<h>> \o CleanCode(t)

\* index of the first occurrence of tok in s before any line break, 0 if none
RECURSIVE FindOnLine(_, _, _)
FindOnLine(s, tok, i) ==
    IF i > Len(s) THEN 0
    ELSE IF s[i] = "\n" THEN 0
    ELSE IF s[i] = tok THEN i
    ELSE FindOnLine(s, tok, i + 1)

\* one replace of formatText: tok, shortest text, tok becomes open, text,
\* close; leftmost first, never across a line break
RECURSIVE WrapPairs(_, _, _, _)
WrapPairs(s, tok, open, close) ==
    IF s = <<>> THEN <<>>
    ELSE IF Head(s) = tok
         THEN LET j == FindOnLine(Tail(s), tok, 1)
              IN  IF j = 0 THEN <<tok>> \o WrapPairs(Tail(s), tok, open, close)
                  ELSE <<open>> \o SubSeq(Tail(s), 1, j - 1) \o <<close>>
                       \o WrapPairs(SubSeq(Tail(s), j + 1, Len(Tail(s))), tok, open, close)
         ELSE <<Head(s)>> \o WrapPairs(Tail(s), tok, open, close)

\* a "**" left over by the bold pass is two single stars for the italic pass
RECURSIVE SplitStars(_)
SplitStars(s) ==
    IF s = <<>> THEN <<>>
    ELSE IF Head(s) = "**" THEN <<"*", "*">> \o SplitStars(Tail(s))
    ELSE <<Head(s)>> \o SplitStars(Tail(s))

RECURSIVE BreakLines(_)
BreakLines(s) ==
    IF s = <<>> THEN <<>>
    ELSE <<IF Head(s) = "\n" THEN "<br>" ELSE Head(s)>> \o BreakLines(Tail(s))

\* formatText: bold, then italic, then line breaks
FormatText(text) ==
    BreakLines(WrapPairs(SplitStars(WrapPairs(text, "**", "<strong>", "</strong>")),
                         "*", "<em>", "</em>"))

\* ------------------------------------------------------------ JSON values
\* JSON.parse is a library function: it is given by its value on the data
\* fragments the model feeds.  A parsed value is an array of elements, an
\* object, null or a scalar; an element is an object, an array, null or a
\* scalar.  Cells are kept as their text.
JElem(k, keys, vals) == [k |-> k, keys |-> keys, vals |-> vals]

JValue(k, keys, vals, elems) ==
    [ok |-> TRUE, k |-> k, keys |-> keys, vals |-> vals, elems |-> elems]

JSyntaxError == [ok |-> FALSE, k |-> "none", keys |-> <<>>, vals |-> <<>>, elems |-> <<>>]

RecordsAB12 == <<"[{a:1,b:2}]">>
RecordsAB34 == <<"[{a:3,b:4}]">>
RecordsC5 == <<"[{c:5}]">>
ArrayOfNull == <<"[{a:1},null]">>
EmptyArray == <<"[]">>
ScalarFive == <<"5">>
SingleObject == <<"{a:0}">>
JsonNull == <<"null">>
ListRow == <<"[[1,2]]">>

JsonParse(a) ==
    CASE a = RecordsAB12 ->
            JValue("array", <<>>, <<>>, <<JElem("object", <<"a", "b">>, <<"1", "2">>)>>)
      [] a = RecordsAB34 ->
            JValue("array", <<>>, <<>>, <<JElem("object", <<"a", "b">>, <<"3", "4">>)>>)
      [] a = RecordsC5 ->
            JValue("array", <<>>, <<>>, <<JElem("object", <<"c">>, <<"5">>)>>)
      [] a = ArrayOfNull ->
            JValue("array", <<>>, <<>>,
                   <<JElem("object", <<"a">>, <<"1">>), JElem("null", <<>>, <<>>)>>)
      [] a = EmptyArray -> JValue("array", <<>>, <<>>, <<>>)
      [] a = ScalarFive -> JValue("scalar", <<>>, <<>>, <<>>)
      [] a = SingleObject -> JValue("object", <<"a">>, <<"0">>, <<>>)
      [] a = JsonNull -> JValue("null", <<>>, <<>>, <<>>)
      [] a = ListRow ->
            JValue("array", <<>>, <<>>, <<JElem("array", <<"0", "1">>, <<"1", "2">>)>>)
      [] OTHER -> JSyntaxError

\* cell || '' : a falsy cell is shown as the empty text
CellText(c) == IF c \in {"0", "false", "null", ""} THEN "" ELSE c

CellTexts(vals) == [i \in 1..Len(vals) |-> CellText(vals[i])]

\* ------------------------------------------------------------- the reducer
\* A section is one container appended to a streaming document.
\*   text              code buffer (textContent of the code element)
\*   blocks            formatted blocks (result, error, text segments; the
\*                     opaque text blocks of a data section)
\*   header, rows      rows of the table head and of the table body
\*   headerInitialized the flag kept on the live data handle
\*   copyButtons, exportButtons, completed   finalize side effects
\*   finalized         how many times the finalize method ran for the section
\*   replaced          the handle of the section was overwritten by a later
\*                     initialize of the same content type
NewSection(doc, t) ==
    [doc |-> doc, type |-> t, text |-> <<>>, blocks |-> <<>>, header |-> <<>>,
     rows |-> <<>>, headerInitialized |-> FALSE, copyButtons |-> 0,
     exportButtons |-> 0, completed |-> FALSE, finalized |-> 0,
     replaced |-> FALSE]

\* the rendered payload of a section in document order: the code buffer;
\* for a data container the table (head rows, then body rows) and after the
\* table wrapper the text blocks appended to the container; the blocks of a
\* result, error or text section
Rendered(sec) ==
    [k \in 1..Len(sec.text) |-> <<"chars", <<sec.text[k]>> >>]
        \o [k \in 1..Len(sec.header) |-> <<"th", sec.header[k]>>]
        \o [k \in 1..Len(sec.rows) |-> <<"td", sec.rows[k]>>]
        \o [k \in 1..Len(sec.blocks) |-> <<"div", sec.blocks[k]>>]

\* The reducer works on a record R of the fields of the client object:
\*   csm       currentStreamingMessage (a document number, 0 for null)
\*   active    activeComponents: content type -> index of its live section
\*             in sections, 0 when the key is not set
\*   threw     an exception is propagating out of the handler
\*   raised    an exception was raised while the event was handled
\*   handled   the handle*Content methods that were called for the message
\*   opened    the requests that were handed to the transport
Throw(R) == [R EXCEPT !.threw = TRUE, !.raised = TRUE]

\* the initialize* methods: a new container is appended to the current
\* document and its handle overwrites activeComponents[t]
InitializeSection(R, t) ==
    LET old == R.active[t]
        kept == IF old # 0 THEN [R.sections EXCEPT ![old].replaced = TRUE]
                ELSE R.sections
    IN  [R EXCEPT !.sections = Append(kept, NewSection(R.csm, t)),
                  !.active[t] = Len(R.sections) + 1]

InitializeCodeBlock(R) == InitializeSection(R, "code")

AppendToCodeBlock(R, code) ==
    LET R1 == IF R.active["code"] = 0 THEN InitializeCodeBlock(R) ELSE R
    IN  IF ~IsString(code) THEN Throw(R1)
        ELSE [R1 EXCEPT !.sections[R1.active["code"]].text = @ \o CleanCode(code)]

FinalizeCodeBlock_AlwaysAddsButton(R) ==
    LET own == {i \in 1..Len(R.sections) : R.sections[i].type = "code"}
        i == IF R.active["code"] # 0 THEN R.active["code"]
             ELSE IF own # {} THEN CHOOSE k \in own : \A j \in own : j <= k
             ELSE 0
    IN  IF i # 0
        THEN [R EXCEPT !.sections[i].copyButtons = @ + 1,
                       !.sections[i].finalized = @ + 1,
                       !.active["code"] = 0]
        ELSE R

FinalizeCodeBlock(R) ==
    IF R.active["code"] # 0
    THEN [R EXCEPT !.sections[R.active["code"]].copyButtons = @ + 1,
                   !.sections[R.active["code"]].finalized = @ + 1,
                   !.active["code"] = 0]
    ELSE R

InitializeDataTable_KeepsHeaderFlag(R) ==
    LET R1 == InitializeSection(R, "data")
    IN  IF R.active["data"] # 0
        THEN [R1 EXCEPT !.sections[R1.active["data"]].headerInitialized =
                            R.sections[R.active["data"]].headerInitialized]
        ELSE R1

InitializeDataTable(R) == InitializeSection(R, "data")

\* the header row built from Object.keys
WithHeader(sec, keys) ==
    [sec EXCEPT !.header = Append(@, keys), !.headerInitialized = TRUE]

\* data.forEach(row => ...): a null row throws in Object.values after the
\* rows before it were appended; a scalar row appends an empty row
RECURSIVE AddRows(_, _)
AddRows(st, elems) ==
    IF elems = <<>> \/ st.threw THEN st
    ELSE LET e == Head(elems)
         IN  IF e.k = "null" THEN [st EXCEPT !.threw = TRUE]
             ELSE AddRows([st EXCEPT !.sec.rows =
                               Append(@, IF e.k \in {"array", "object"}
                                         THEN CellTexts(e.vals) ELSE <<>>)],
                          Tail(elems))

\* renderDataTable on the live data section; the local headerInitialized is
\* read once on entry
RenderDataTable(sec, data) ==
    LET st0 == [sec |-> sec, threw |-> FALSE]
    IN  CASE data.k = "array" ->
                IF Len(data.elems) > 0
                THEN LET first == data.elems[1]
                     IN  IF ~sec.headerInitialized /\ first.k \in {"object", "array", "null"}
                         THEN IF first.k = "null" THEN [st0 EXCEPT !.threw = TRUE]
                              ELSE AddRows([st0 EXCEPT !.sec = WithHeader(sec, first.keys)],
                                           data.elems)
                         ELSE AddRows(st0, data.elems)
                ELSE st0
          [] data.k = "object" ->
                LET s1 == IF ~sec.headerInitialized THEN WithHeader(sec, data.keys) ELSE sec
                IN  [st0 EXCEPT !.sec = [s1 EXCEPT !.rows = Append(@, CellTexts(data.vals))]]
          [] data.k = "null" -> [st0 EXCEPT !.threw = TRUE]
          [] OTHER -> st0

\* renderDataTableAsText: formatText throws on a value that is not a string
RenderDataTableAsText(st, text) ==
    IF ~IsString(text) THEN [st EXCEPT !.threw = TRUE]
    ELSE [sec |-> [st.sec EXCEPT !.blocks = Append(@, FormatText(text))], threw |-> FALSE]

AppendToDataTable_DropsUnparsed(R, data) ==
    LET R1 == IF R.active["data"] = 0 THEN InitializeDataTable(R) ELSE R
        i == R1.active["data"]
        parsed == IF IsString(data) THEN JsonParse(data) ELSE JSyntaxError
        tried == IF parsed.ok THEN RenderDataTable(R1.sections[i], parsed)
                 ELSE [sec |-> R1.sections[i], threw |-> FALSE]
        done == IF tried.threw THEN RenderDataTableAsText(tried, data) ELSE tried
    IN  [R1 EXCEPT !.sections[i] = done.sec, !.threw = done.threw,
                   !.raised = @ \/ done.threw]

\* appendToDataTable: JSON.parse and renderDataTable inside the try, the
\* text fallback in the catch
AppendToDataTable(R, data) ==
    LET R1 == IF R.active["data"] = 0 THEN InitializeDataTable(R) ELSE R
        i == R1.active["data"]
        parsed == IF IsString(data) THEN JsonParse(data) ELSE JSyntaxError
        tried == IF parsed.ok THEN RenderDataTable(R1.sections[i], parsed)
                 ELSE [sec |-> R1.sections[i], threw |-> TRUE]
        done == IF tried.threw THEN RenderDataTableAsText(tried, data) ELSE tried
    IN  [R1 EXCEPT !.sections[i] = done.sec, !.threw = done.threw,
                   !.raised = @ \/ done.threw]

FinalizeDataTable(R) ==
    IF R.active["data"] # 0
    THEN [R EXCEPT !.sections[R.active["data"]].exportButtons = @ + 1,
                   !.sections[R.active["data"]].finalized = @ + 1,
                   !.active["data"] = 0]
    ELSE R

\* result, error and text sections share one shape: each fragment becomes
\* one formatted block
AppendBlock(R, t, a) ==
    LET R1 == IF R.active[t] = 0 THEN InitializeSection(R, t) ELSE R
    IN  IF ~IsString(a) THEN Throw(R1)
        ELSE [R1 EXCEPT !.sections[R1.active[t]].blocks = Append(@, FormatText(a))]

InitializeResultSection(R) == InitializeSection(R, "result")

AppendToResultSection(R, result) == AppendBlock(R, "result", result)

FinalizeResultSection(R) ==
    IF R.active["result"] # 0
    THEN [R EXCEPT !.sections[R.active["result"]].completed = TRUE,
                   !.sections[R.active["result"]].finalized = @ + 1,
                   !.active["result"] = 0]
    ELSE R

InitializeErrorSection(R) == InitializeSection(R, "error")

AppendToErrorSection(R, error) == AppendBlock(R, "error", error)

FinalizeErrorSection(R) ==
    IF R.active["error"] # 0
    THEN [R EXCEPT !.sections[R.active["error"]].finalized = @ + 1,
                   !.active["error"] = 0]
    ELSE R

InitializeTextSection(R) == InitializeSection(R, "text")

AppendToTextSection(R, text) == AppendBlock(R, "text", text)

FinalizeTextSection(R) ==
    IF R.active["text"] # 0
    THEN [R EXCEPT !.sections[R.active["text"]].finalized = @ + 1,
                   !.active["text"] = 0]
    ELSE R

\* the five handle*Content methods: switch (status)
HandleCodeContent_StartAppends(R, answer, status) ==
    LET R0 == [R EXCEPT !.handled = @ \cup {"code"}]
    IN  CASE NormalizeStatus(status) = "start" ->
                AppendToCodeBlock(InitializeCodeBlock(R0), answer)
          [] NormalizeStatus(status) = "end" -> FinalizeCodeBlock(R0)
          [] OTHER -> AppendToCodeBlock(R0, answer)

HandleCodeContent(R, answer, status) ==
    LET R0 == [R EXCEPT !.handled = @ \cup {"code"}]
    IN  CASE NormalizeStatus(status) = "start" -> InitializeCodeBlock(R0)
          [] NormalizeStatus(status) = "end" -> FinalizeCodeBlock(R0)
          [] OTHER -> AppendToCodeBlock(R0, answer)

HandleDataContent(R, answer, status) ==
    LET R0 == [R EXCEPT !.handled = @ \cup {"data"}]
    IN  CASE NormalizeStatus(status) = "start" -> InitializeDataTable(R0)
          [] NormalizeStatus(status) = "end" -> FinalizeDataTable(R0)
          [] OTHER -> AppendToDataTable(R0, answer)

HandleResultContent(R, answer, status) ==
    LET R0 == [R EXCEPT !.handled = @ \cup {"result"}]
    IN  CASE NormalizeStatus(status) = "start" -> InitializeResultSection(R0)
          [] NormalizeStatus(status) = "end" -> FinalizeResultSection(R0)
          [] OTHER -> AppendToResultSection(R0, answer)

HandleErrorContent(R, answer, status) ==
    LET R0 == [R EXCEPT !.handled = @ \cup {"error"}]
    IN  CASE NormalizeStatus(status) = "start" -> InitializeErrorSection(R0)
          [] NormalizeStatus(status) = "end" -> FinalizeErrorSection(R0)
          [] OTHER -> AppendToErrorSection(R0, answer)

HandleTextContent(R, answer, status) ==
    LET R0 == [R EXCEPT !.handled = @ \cup {"text"}]
    IN  CASE NormalizeStatus(status) = "start" -> InitializeTextSection(R0)
          [] NormalizeStatus(status) = "end" -> FinalizeTextSection(R0)
          [] OTHER -> AppendToTextSection(R0, answer)

\* switch (content_type) of handleStreamingMessage / handleWebSocketMessage
Dispatch_CodeFallsThrough(R, m) ==
    LET slot == NormalizeType(m.content_type)
    IN  CASE slot = "code" ->
                HandleDataContent(HandleCodeContent(R, m.answer, m.content_status),
                                  m.answer, m.content_status)
          [] slot = "data" -> HandleDataContent(R, m.answer, m.content_status)
          [] slot = "result" -> HandleResultContent(R, m.answer, m.content_status)
          [] slot = "error" -> HandleErrorContent(R, m.answer, m.content_status)
          [] OTHER -> HandleTextContent(R, m.answer, m.content_status)

Dispatch(R, m) ==
    LET slot == NormalizeType(m.content_type)
    IN  CASE slot = "code" -> HandleCodeContent(R, m.answer, m.content_status)
          [] slot = "data" -> HandleDataContent(R, m.answer, m.content_status)
          [] slot = "result" -> HandleResultContent(R, m.answer, m.content_status)
          [] slot = "error" -> HandleErrorContent(R, m.answer, m.content_status)
          [] OTHER -> HandleTextContent(R, m.answer, m.content_status)

\* ------------------------------------------------------------------ state
VARIABLES
    client,          \* "sse" (ExcelAgentWithSSE) or "ws" (ExcelAgent)
    csm,             \* currentStreamingMessage: document number, 0 = null
    nDocs,           \* streaming documents created so far
    active,          \* activeComponents
    sections,        \* every section container appended so far, in order
    loading,         \* loadingIndicator is displayed
    sendDisabled,    \* sendButton.disabled (questionInput.disabled goes with it)
    voiceDisabled,   \* voiceButton.disabled
    nErrors,         \* bot messages added by showError
    nReq,            \* questions submitted (user messages added)
    nMsgs,           \* frames delivered
    nFail,           \* transport failures injected
    eventSource,     \* sse: this.eventSource, a stream number, 0 = null
    streams,         \* sse: stream number -> "none" | "open" | "closed"
    settled,         \* sse: the promise of streamQueryResults(s) is settled
    wsState,         \* ws: "connecting" | "open" | "errored" | "closed"
    reconnectTimers, \* ws: delays of the pending setTimeout(connectWebSocket)
    sent,            \* ws: requests handed to websocket.send
    isRecording,     \* ws: this.isRecording
    micPending,      \* ws: startVoiceRecording calls awaiting getUserMedia
    recorders,       \* ws: every MediaRecorder created, with its stream
    mediaRecorder,   \* ws: this.mediaRecorder, index in recorders, 0 = null
    audioChunks,     \* ws: this.audioChunks is not empty
    capTimers,       \* ws: pending recording-cap timers (by recorder)
    recordingTimeout,\* ws: this.recordingTimeout, a timer, 0 = null
    nVoice,          \* ws: recordings requested
    sessionOpen,     \* requests transmitted and neither finished nor failed
    scen,            \* how many messages of Scenario the session received,
                     \* in order and with nothing else; -1 once it departed
    last,            \* the event handled by the last step
    delivered,       \* the message of the last step of SpecReducer
    slotBefore,      \* the state of its slot before that step
    interrupted,     \* ws: documents that were current when the socket
                     \* closed during an open session, until the user
                     \* submits a request
    click            \* the outcome of the last click on a copy or export button

vars == <<client, csm, nDocs, active, sections, loading, sendDisabled,
          voiceDisabled, nErrors, nReq, nMsgs, nFail, eventSource, streams,
          settled, wsState, reconnectTimers, sent, isRecording, micPending,
          recorders, mediaRecorder, audioChunks, capTimers, recordingTimeout,
          nVoice, sessionOpen, scen, last, delivered,
          slotBefore, interrupted, click>>

\* the fields of the client object and of the page, as one record
St ==
    [client |-> client, csm |-> csm, nDocs |-> nDocs, active |-> active,
     sections |-> sections, loading |-> loading, sendDisabled |-> sendDisabled,
     voiceDisabled |-> voiceDisabled, nErrors |-> nErrors,
     eventSource |-> eventSource, streams |-> streams, settled |-> settled,
     wsState |-> wsState, reconnectTimers |-> reconnectTimers, sent |-> sent,
     isRecording |-> isRecording, micPending |-> micPending,
     recorders |-> recorders, mediaRecorder |-> mediaRecorder,
     audioChunks |-> audioChunks, capTimers |-> capTimers,
     recordingTimeout |-> recordingTimeout, opened |-> {}, handled |-> {},
     threw |-> FALSE, raised |-> FALSE]

Commit(S) ==
    /\ csm' = S.csm
    /\ nDocs' = S.nDocs
    /\ active' = S.active
    /\ sections' = S.sections
    /\ loading' = S.loading
    /\ sendDisabled' = S.sendDisabled
    /\ voiceDisabled' = S.voiceDisabled
    /\ nErrors' = S.nErrors
    /\ eventSource' = S.eventSource
    /\ streams' = S.streams
    /\ settled' = S.settled
    /\ wsState' = S.wsState
    /\ reconnectTimers' = S.reconnectTimers
    /\ sent' = S.sent
    /\ isRecording' = S.isRecording
    /\ micPending' = S.micPending
    /\ recorders' = S.recorders
    /\ mediaRecorder' = S.mediaRecorder
    /\ audioChunks' = S.audioChunks
    /\ capTimers' = S.capTimers
    /\ recordingTimeout' = S.recordingTimeout
    /\ client' = client

\* -------------------------------------------------------------- messages
AbsentMsg == [answer |-> Undefined, finished |-> 0, content_type |-> Absent,
              content_status |-> Absent]

Msg(a, f, ct, cs) ==
    [answer |-> a, finished |-> f, content_type |-> ct, content_status |-> cs]

\* a frame: text that does not parse, the JSON text null, or an envelope
\* {code, data} whose data is a message or null
Unparseable == [kind |-> "unparseable", code |-> 0, dataNull |-> TRUE, data |-> AbsentMsg]
NullFrame == [kind |-> "jsonnull", code |-> 0, dataNull |-> TRUE, data |-> AbsentMsg]
Envelope(c, m) == [kind |-> "envelope", code |-> c, dataNull |-> FALSE, data |-> m]
NullDataEnvelope(c) == [kind |-> "envelope", code |-> c, dataNull |-> TRUE, data |-> AbsentMsg]

\* if (data.code === 0)
IsCodeZero_AcceptsAnyCode(f) == TRUE

IsCodeZero(f) == f.code = 0

\* ----------------------------------------------------------- UI helpers
\* showLoading; the duplex client also disables the voice button unless a
\* recording is active
ShowLoading(S) ==
    [S EXCEPT !.loading = TRUE, !.sendDisabled = TRUE,
              !.voiceDisabled = IF S.client = "ws" /\ ~S.isRecording THEN TRUE ELSE @]

HideLoading(S) ==
    [S EXCEPT !.loading = FALSE, !.sendDisabled = FALSE, !.voiceDisabled = FALSE]

\* showError adds one bot message "Error: ..."
ShowError(S) == [S EXCEPT !.nErrors = @ + 1]

\* createStreamingMessage
CreateStreamingMessage_LeavesNull(S) == [S EXCEPT !.nDocs = @ + 1]

CreateStreamingMessage(S) == [S EXCEPT !.nDocs = @ + 1, !.csm = S.nDocs + 1]

\* finishStreaming of ExcelAgentWithSSE; classList of a null document
\* throws after hideLoading
FinishStreamingSSE(S) ==
    LET S1 == [HideLoading(S) EXCEPT !.csm = 0]
    IN  IF S.csm = 0 THEN Throw(HideLoading(S))
        ELSE IF S1.eventSource # 0
        THEN [S1 EXCEPT !.streams[S1.eventSource] = "closed", !.eventSource = 0]
        ELSE S1

\* finishStreaming of ExcelAgent
FinishStreamingWS_DropsHandles(S) ==
    IF S.csm = 0 THEN Throw(HideLoading(S))
    ELSE [HideLoading(S) EXCEPT !.csm = 0, !.active = [t \in Types |-> 0]]

FinishStreamingWS(S) ==
    IF S.csm = 0 THEN Throw(HideLoading(S))
    ELSE [HideLoading(S) EXCEPT !.csm = 0]

\* handleStreamingMessage; destructuring a null data throws
HandleStreamingMessage_FinishFirst(S, f) ==
    IF S.csm = 0 THEN S
    ELSE IF f.dataNull THEN Throw(S)
    ELSE LET S0 == IF f.data.finished = 1 THEN FinishStreamingSSE(S) ELSE S
         IN  Dispatch(S0, f.data)

HandleStreamingMessage(S, f) ==
    IF S.csm = 0 THEN S
    ELSE IF f.dataNull THEN Throw(S)
    ELSE LET S1 == Dispatch(S, f.data)
         IN  IF S1.threw THEN S1
             ELSE IF f.data.finished = 1 THEN FinishStreamingSSE(S1)
             ELSE S1

\* handleWebSocketMessage
HandleWebSocketMessage_SkipsWithoutDocument(S, f) ==
    IF S.csm = 0 THEN S
    ELSE IF f.dataNull THEN Throw(S)
    ELSE LET S1 == Dispatch(S, f.data)
         IN  IF S1.threw THEN S1
             ELSE IF f.data.finished = 1 THEN FinishStreamingWS(S1)
             ELSE S1

HandleWebSocketMessage(S, f) ==
    LET S0 == IF S.csm = 0 THEN CreateStreamingMessage(S) ELSE S
    IN  IF f.dataNull THEN Throw(S0)
        ELSE LET S1 == Dispatch(S0, f.data)
             IN  IF S1.threw THEN S1
                 ELSE IF f.data.finished = 1 THEN FinishStreamingWS(S1)
                 ELSE S1

\* reject(error) of the promise of stream s, and the catch of sendQuestion
\* that the rejection runs; a settled promise ignores it
Reject(S, s) ==
    IF S.settled[s] THEN [S EXCEPT !.threw = FALSE]
    ELSE ShowError(HideLoading([S EXCEPT !.settled[s] = TRUE, !.threw = FALSE]))

Resolve(S, s) == [S EXCEPT !.settled[s] = TRUE]

\* eventSource.onmessage of stream s
SseOnMessageBody(S, s, f) ==
    IF f.kind # "envelope" THEN Reject(Throw(S), s)
    ELSE IF ~IsCodeZero(f) THEN S
    ELSE LET S1 == HandleStreamingMessage(S, f)
         IN  IF S1.threw \/ f.dataNull THEN Reject(Throw(S1), s)
             ELSE IF f.data.finished = 1 THEN Resolve(S1, s)
             ELSE S1

\* websocket.onmessage: every exception is caught and logged
WsOnMessageBody(S, f) ==
    IF f.kind # "envelope" THEN [Throw(S) EXCEPT !.threw = FALSE]
    ELSE IF ~IsCodeZero(f) THEN S
    ELSE [HandleWebSocketMessage(S, f) EXCEPT !.threw = FALSE]

FrameClass(f) ==
    IF f.kind # "envelope" THEN f.kind
    ELSE IF f.code = 0 THEN "zero" ELSE "nonzero"

\* the record of the last event: what was delivered, the slots whose handler
\* the reducer called and the content_type it read, whether an exception was
\* raised while handling the event, and whether the event is a failure of a
\* request or of the transport (an exception or a transport error while a
\* session is open, a request that could not be sent)
NoEvent == [ev |-> "init", frame |-> "none", nodata |-> TRUE, fin |-> FALSE,
            ct |-> Absent, slots |-> {}, threw |-> FALSE, fail |-> FALSE]

FrameEvent(f, handled, threw, open) ==
    [ev |-> "message", frame |-> FrameClass(f), nodata |-> f.dataNull,
     fin |-> (f.kind = "envelope" /\ ~f.dataNull /\ f.data.finished = 1),
     ct |-> IF f.dataNull THEN Absent ELSE f.data.content_type,
     slots |-> handled, threw |-> threw, fail |-> (threw /\ open)]

Event(e, failed) == [NoEvent EXCEPT !.ev = e, !.fail = failed]

\* ------------------------------------------------- duplex client: sending
\* sendWebSocketMessage
SendWebSocketMessage_IgnoresState(S) ==
    [S EXCEPT !.sent = @ + 1, !.opened = {S.sent + 1}]

SendWebSocketMessage(S) ==
    IF S.wsState = "open"
    THEN [S EXCEPT !.sent = @ + 1, !.opened = {S.sent + 1}]
    ELSE ShowError(S)

\* ------------------------------------------------- duplex client: voice
NewRecorder(st) ==
    [state |-> st, streamLive |-> TRUE, stopQueued |-> FALSE, processing |-> FALSE]

\* stopping the tracks of a stream ends a recorder that records from it
StopTracks(S, r) ==
    IF S.recorders[r].state = "recording"
    THEN [S EXCEPT !.recorders[r].streamLive = FALSE,
                   !.recorders[r].state = "inactive",
                   !.recorders[r].stopQueued = TRUE]
    ELSE [S EXCEPT !.recorders[r].streamLive = FALSE]

ClearRecordingTimeout(S) ==
    IF S.recordingTimeout # 0
    THEN [S EXCEPT !.capTimers = @ \ {S.recordingTimeout}, !.recordingTimeout = 0]
    ELSE S

\* stopVoiceRecording
StopVoiceRecording(S) ==
    IF S.mediaRecorder # 0 /\ S.isRecording
    THEN LET r == S.mediaRecorder
             S1 == IF S.recorders[r].state = "recording"
                   THEN [S EXCEPT !.recorders[r].state = "inactive",
                                  !.recorders[r].stopQueued = TRUE]
                   ELSE S
         IN  [S1 EXCEPT !.isRecording = FALSE, !.sendDisabled = FALSE]
    ELSE S

\* forceStopRecording
ForceStopRecording(S) ==
    LET S1 == ClearRecordingTimeout([S EXCEPT !.isRecording = FALSE])
        S2 == HideLoading(S1)
    IN  IF S2.mediaRecorder # 0 THEN StopTracks(S2, S2.mediaRecorder) ELSE S2

\* ------------------------------------------------------------ input sets
Answers == {<<"x=1">>, Undefined}
CtValues == Types \cup {"chart", Absent}
CsValues == {"start", "in_progress", "end", "paused", Absent}

Messages ==
    [answer : Answers, finished : {0, 1}, content_type : CtValues,
     content_status : CsValues]

NonZeroFrames ==
    {Envelope(1, Msg(<<"x=1">>, 1, "code", "start")),
     Envelope(1, Msg(<<"x=1">>, 0, "error", "in_progress")),
     NullDataEnvelope(1)}

Frames ==
    {Unparseable, NullFrame, NullDataEnvelope(0)}
        \cup {Envelope(0, m) : m \in Messages} \cup NonZeroFrames

\* the frames a server sends around a voice request
VoiceFrames ==
    {Envelope(0, Msg(<<"x=1">>, 0, "code", Absent)),
     Envelope(0, Msg(<<"done">>, 1, "result", "in_progress")),
     Envelope(0, Msg(Undefined, 1, Absent, Absent))}

\* the scenario of the testable properties: code start, code "x=1", result
\* start, code end, result "done", then a message with finished only
Scenario ==
    <<Msg(Undefined, 0, "code", "start"),
      Msg(<<"x=1">>, 0, "code", "in_progress"),
      Msg(Undefined, 0, "result", "start"),
      Msg(Undefined, 0, "code", "end"),
      Msg(<<"done">>, 0, "result", "in_progress"),
      Msg(Undefined, 1, Absent, Absent)>>

ScenarioFrames == {Envelope(0, Scenario[i]) : i \in 1..Len(Scenario)}

Advance(k, f) ==
    IF k >= 0 /\ k < Len(Scenario) /\ f = Envelope(0, Scenario[k + 1]) THEN k + 1 ELSE -1

StreamIds == 1..(MaxReq + 1)

\* no button was clicked yet.  A click record holds the button, the section
\* it belongs to, whether the handler produced an output (text written to
\* the clipboard, a CSV download), the output, and whether it threw.
NoClick ==
    [kind |-> "none", section |-> 0, produced |-> FALSE, out |-> <<>>, threw |-> FALSE]

\* one line of the CSV: every cell between double quotes, joined by commas
RECURSIVE CsvLine(_)
CsvLine(row) ==
    IF row = <<>> THEN <<>>
    ELSE <<"\"", Head(row), "\"">>
            \o (IF Tail(row) = <<>> THEN <<>> ELSE <<",">> \o CsvLine(Tail(row)))

\* the lines of the CSV of a table: all its rows, head rows first
CsvOfTable(sec) ==
    [k \in 1..(Len(sec.header) + Len(sec.rows)) |->
        CsvLine(IF k <= Len(sec.header) THEN sec.header[k]
                ELSE sec.rows[k - Len(sec.header)])]

\* onclick of the copy button of section i: copyToClipboard of the text
\* content behind the code handle at the time of the click
CopyButtonOnClick(i) ==
    IF active["code"] = 0
    THEN [kind |-> "copy", section |-> i, produced |-> FALSE, out |-> <<>>,
          threw |-> TRUE]
    ELSE [kind |-> "copy", section |-> i, produced |-> TRUE,
          out |-> sections[active["code"]].text, threw |-> FALSE]

\* onclick of the export button of section i: exportTableToCSV
ExportTableToCSV(i) ==
    IF active["data"] = 0
    THEN [kind |-> "export", section |-> i, produced |-> FALSE, out |-> <<>>,
          threw |-> FALSE]
    ELSE [kind |-> "export", section |-> i, produced |-> TRUE,
          out |-> CsvOfTable(sections[active["data"]]), threw |-> FALSE]

RecorderIds == 1..(MaxVoice + 1)

\* ------------------------------------------------------------------- Init
Init ==
    /\ client \in {"sse", "ws"}
    /\ csm = 0
    /\ nDocs = 0
    /\ active = [t \in Types |-> 0]
    /\ sections = <<>>
    /\ loading = FALSE
    /\ sendDisabled = FALSE
    /\ voiceDisabled = FALSE
    /\ nErrors = 0
    /\ nReq = 0
    /\ nMsgs = 0
    /\ nFail = 0
    /\ eventSource = 0
    /\ streams = [s \in StreamIds |-> "none"]
    /\ settled = [s \in StreamIds |-> FALSE]
    /\ wsState = IF client = "ws" THEN "connecting" ELSE "none"
    /\ reconnectTimers = <<>>
    /\ sent = 0
    /\ isRecording = FALSE
    /\ micPending = 0
    /\ recorders = <<>>
    /\ mediaRecorder = 0
    /\ audioChunks = FALSE
    /\ capTimers = {}
    /\ recordingTimeout = 0
    /\ nVoice = 0
    /\ sessionOpen = {}
    /\ scen = 0
    /\ last = NoEvent
    /\ delivered = AbsentMsg
    /\ slotBefore = "none"
    /\ interrupted = {}
    /\ click = NoClick

\* ------------------------------------------------ event-stream client
\* sendQuestion and streamQueryResults of ExcelAgentWithSSE, with a
\* non-empty question
SseSendQuestion ==
    /\ client = "sse"
    /\ ~sendDisabled
    /\ LET s == nReq + 1
           S1 == CreateStreamingMessage(ShowLoading(St))
       IN  /\ Commit([S1 EXCEPT !.eventSource = s, !.streams[s] = "open"])
           /\ sessionOpen' = sessionOpen \cup {s}
    /\ nReq' = nReq + 1
    /\ last' = Event("sendQuestion", FALSE)
    /\ scen' = IF nReq = 0 THEN 0 ELSE -1
    /\ UNCHANGED <<nMsgs, nFail, nVoice, delivered, slotBefore,
                 interrupted, click>>

\* eventSource.onmessage of stream s
SseOnMessage(s, f) ==
    /\ client = "sse"
    /\ streams[s] = "open"
    /\ LET S2 == SseOnMessageBody(St, s, f)
       IN  /\ Commit(S2)
           /\ last' = FrameEvent(f, S2.handled, S2.raised, sessionOpen # {})
    /\ sessionOpen' = IF FrameClass(f) = "zero" /\ ~f.dataNull /\ f.data.finished = 1
                      THEN sessionOpen \ {s} ELSE sessionOpen
    /\ nMsgs' = nMsgs + 1
    /\ scen' = Advance(scen, f)
    /\ UNCHANGED <<nReq, nFail, nVoice, delivered, slotBefore,
                 interrupted, click>>

\* eventSource.onerror of stream s; afterwards the browser either keeps
\* reconnecting the stream or has closed it (fatal)
SseOnError(s, fatal) ==
    /\ client = "sse"
    /\ streams[s] = "open"
    /\ LET S1 == HideLoading(St)
           S2 == IF S1.eventSource = 0 THEN S1
                 ELSE Reject([S1 EXCEPT !.streams[S1.eventSource] = "closed"], s)
           S3 == IF fatal THEN [S2 EXCEPT !.streams[s] = "closed"] ELSE S2
       IN  Commit(S3)
    /\ sessionOpen' = sessionOpen \ {s}
    /\ last' = Event("sseError", TRUE)
    /\ nFail' = nFail + 1
    /\ UNCHANGED <<nReq, nMsgs, nVoice, scen, delivered, slotBefore,
                 interrupted, click>>

\* ------------------------------------------------------ duplex client
\* websocket.onopen
WsOpen ==
    /\ client = "ws"
    /\ wsState = "connecting"
    /\ Commit([St EXCEPT !.wsState = "open"])
    /\ last' = Event("wsOpen", FALSE)
    /\ UNCHANGED <<nReq, nMsgs, nFail, nVoice, sessionOpen, scen, delivered, slotBefore,
                 interrupted, click>>

\* websocket.onerror; the close event follows
WsOnError_SchedulesReconnect ==
    /\ client = "ws"
    /\ wsState \in {"connecting", "open"}
    /\ Commit([ShowError(St) EXCEPT !.wsState = "errored",
                                    !.reconnectTimers = Append(@, ReconnectDelay)])
    /\ last' = Event("wsError", sessionOpen # {})
    /\ sessionOpen' = {}
    /\ nFail' = nFail + 1
    /\ UNCHANGED <<nReq, nMsgs, nVoice, scen, delivered, slotBefore,
                 interrupted, click>>

WsOnError ==
    /\ client = "ws"
    /\ wsState \in {"connecting", "open"}
    /\ Commit([ShowError(St) EXCEPT !.wsState = "errored"])
    /\ last' = Event("wsError", sessionOpen # {})
    /\ sessionOpen' = {}
    /\ nFail' = nFail + 1
    /\ UNCHANGED <<nReq, nMsgs, nVoice, scen, delivered, slotBefore,
                 interrupted, click>>

\* websocket.onclose, after an error or when the peer closes an open
\* socket: schedules one reconnect
WsOnClose_NoReconnect ==
    /\ client = "ws"
    /\ wsState \in {"errored", "open"}
    /\ Commit([St EXCEPT !.wsState = "closed"])
    /\ last' = Event("wsClose", sessionOpen # {})
    /\ sessionOpen' = {}
    /\ nFail' = IF wsState = "open" THEN nFail + 1 ELSE nFail
    /\ interrupted' = IF csm # 0 /\ sessionOpen # {} THEN interrupted \cup {csm}
                    ELSE interrupted
    /\ UNCHANGED <<nReq, nMsgs, nVoice, scen, delivered, slotBefore, click>>

WsOnClose ==
    /\ client = "ws"
    /\ wsState \in {"errored", "open"}
    /\ Commit([St EXCEPT !.wsState = "closed", !.reconnectTimers = Append(@, ReconnectDelay)])
    /\ last' = Event("wsClose", sessionOpen # {})
    /\ sessionOpen' = {}
    /\ nFail' = IF wsState = "open" THEN nFail + 1 ELSE nFail
    /\ interrupted' = IF csm # 0 /\ sessionOpen # {} THEN interrupted \cup {csm}
                    ELSE interrupted
    /\ UNCHANGED <<nReq, nMsgs, nVoice, scen, delivered, slotBefore, click>>

\* the reconnect timer fires: connectWebSocket
ConnectWebSocket ==
    /\ client = "ws"
    /\ reconnectTimers # <<>>
    /\ Commit([St EXCEPT !.wsState = "connecting", !.reconnectTimers = Tail(@)])
    /\ last' = Event("reconnect", FALSE)
    /\ UNCHANGED <<nReq, nMsgs, nFail, nVoice, sessionOpen, scen, delivered, slotBefore,
                 interrupted, click>>

\* sendQuestion of ExcelAgent, with a non-empty question
WsSendQuestion ==
    /\ client = "ws"
    /\ ~sendDisabled
    /\ LET S1 == SendWebSocketMessage(ShowLoading(St))
       IN  /\ Commit(S1)
           /\ sessionOpen' = sessionOpen \cup S1.opened
           /\ last' = Event("sendQuestion", S1.opened = {})
    /\ nReq' = nReq + 1
    /\ interrupted' = {}
    /\ UNCHANGED <<nMsgs, nFail, nVoice, scen, delivered, slotBefore, click>>

\* websocket.onmessage
WsOnMessage(f) ==
    /\ client = "ws"
    /\ wsState = "open"
    /\ LET S2 == WsOnMessageBody(St, f)
       IN  /\ Commit(S2)
           /\ last' = FrameEvent(f, S2.handled, S2.raised, sessionOpen # {})
    /\ sessionOpen' = IF FrameClass(f) = "zero" /\ ~f.dataNull /\ f.data.finished = 1
                      THEN {} ELSE sessionOpen
    /\ nMsgs' = nMsgs + 1
    /\ scen' = Advance(scen, f)
    /\ UNCHANGED <<nReq, nFail, nVoice, delivered, slotBefore,
                 interrupted, click>>

\* click on the voice button: toggleVoiceRecording.  With no recording
\* active startVoiceRecording runs up to the await of getUserMedia.
VoiceClick ==
    /\ client = "ws"
    /\ ~voiceDisabled
    /\ IF isRecording
       THEN /\ Commit(StopVoiceRecording(St))
            /\ nVoice' = nVoice
       ELSE /\ nVoice < MaxVoice
            /\ Commit([St EXCEPT !.micPending = @ + 1])
            /\ nVoice' = nVoice + 1
    /\ last' = Event("voiceClick", FALSE)
    /\ UNCHANGED <<nReq, nMsgs, nFail, sessionOpen, scen, delivered, slotBefore,
                 interrupted, click>>

\* getUserMedia resolves: the rest of the try block of startVoiceRecording.
\* Creating the recorder throws where the mime type is not supported.
MicGranted(supported) ==
    /\ client = "ws"
    /\ micPending > 0
    /\ LET r == Len(recorders) + 1
           S0 == [St EXCEPT !.micPending = @ - 1]
       IN  IF supported
           THEN Commit([S0 EXCEPT !.recorders = Append(@, NewRecorder("recording")),
                                  !.mediaRecorder = r,
                                  !.audioChunks = FALSE,
                                  !.isRecording = TRUE,
                                  !.loading = TRUE,
                                  !.sendDisabled = TRUE,
                                  !.capTimers = @ \cup {r},
                                  !.recordingTimeout = r])
           ELSE Commit(ForceStopRecording(ShowError(
                    [S0 EXCEPT !.recorders = Append(@, NewRecorder("none"))])))
    /\ last' = Event("micGranted", ~supported)
    /\ UNCHANGED <<nReq, nMsgs, nFail, nVoice, sessionOpen, scen, delivered, slotBefore,
                 interrupted, click>>

\* getUserMedia rejects: the catch block of startVoiceRecording
MicDenied ==
    /\ client = "ws"
    /\ micPending > 0
    /\ Commit(ForceStopRecording(ShowError([St EXCEPT !.micPending = @ - 1])))
    /\ last' = Event("micDenied", TRUE)
    /\ UNCHANGED <<nReq, nMsgs, nFail, nVoice, sessionOpen, scen, delivered, slotBefore,
                 interrupted, click>>

\* mediaRecorder.ondataavailable with a non-empty chunk
DataAvailable(r) ==
    /\ client = "ws"
    /\ r \in 1..Len(recorders)
    /\ recorders[r].state = "recording" \/ recorders[r].stopQueued
    /\ ~audioChunks
    /\ Commit([St EXCEPT !.audioChunks = TRUE])
    /\ last' = Event("dataAvailable", FALSE)
    /\ UNCHANGED <<nReq, nMsgs, nFail, nVoice, sessionOpen, scen, delivered, slotBefore,
                 interrupted, click>>

\* the recording-cap timer of recorder t fires
CapTimerFires(t) ==
    /\ client = "ws"
    /\ t \in capTimers
    /\ Commit(StopVoiceRecording([St EXCEPT !.capTimers = @ \ {t}]))
    /\ last' = Event("capTimer", FALSE)
    /\ UNCHANGED <<nReq, nMsgs, nFail, nVoice, sessionOpen, scen, delivered, slotBefore,
                 interrupted, click>>

\* mediaRecorder.onstop up to the await inside processVoiceMessage
RecorderOnStop(r) ==
    /\ client = "ws"
    /\ r \in 1..Len(recorders)
    /\ recorders[r].stopQueued
    /\ LET S1 == ClearRecordingTimeout([St EXCEPT !.recorders[r].stopQueued = FALSE])
       IN  IF S1.audioChunks
           THEN Commit([S1 EXCEPT !.recorders[r].processing = TRUE])
           ELSE Commit([S1 EXCEPT !.recorders[r].streamLive = FALSE])
    /\ last' = Event("recorderStop", FALSE)
    /\ UNCHANGED <<nReq, nMsgs, nFail, nVoice, sessionOpen, scen, delivered, slotBefore,
                 interrupted, click>>

\* the rest of processVoiceMessage and of onstop: the audio is encoded and
\* sent, or the encoding throws; then the tracks are stopped
ProcessVoiceMessage(r, encoded) ==
    /\ client = "ws"
    /\ r \in 1..Len(recorders)
    /\ recorders[r].processing
    /\ LET S0 == [St EXCEPT !.recorders[r].processing = FALSE,
                            !.recorders[r].streamLive = FALSE]
           S1 == IF encoded THEN SendWebSocketMessage(S0)
                 ELSE ShowError(HideLoading(S0))
       IN  /\ Commit(S1)
           /\ sessionOpen' = sessionOpen \cup S1.opened
           /\ last' = Event("processVoice", S1.opened = {})
           /\ interrupted' = IF encoded THEN {} ELSE interrupted
    /\ UNCHANGED <<nReq, nMsgs, nFail, nVoice, scen, delivered, slotBefore, click>>

\* mediaRecorder.onerror; the recorder stops itself after the error event
RecorderOnError(r) ==
    /\ client = "ws"
    /\ r \in 1..Len(recorders)
    /\ recorders[r].state = "recording"
    /\ LET S1 == ShowError(ForceStopRecording(St))
       IN  Commit(IF S1.recorders[r].state = "recording"
                  THEN [S1 EXCEPT !.recorders[r].state = "inactive",
                                  !.recorders[r].stopQueued = TRUE]
                  ELSE S1)
    /\ last' = Event("recorderError", TRUE)
    /\ nFail' = nFail + 1
    /\ UNCHANGED <<nReq, nMsgs, nVoice, sessionOpen, scen, delivered, slotBefore,
                 interrupted, click>>

\* --------------------------------------------------------- specifications
\* Spec: both clients under every frame of Frames, with transport failures.
Next ==
    \/ nReq < MaxReq /\ SseSendQuestion
    \/ nMsgs < MaxMsgs /\ \E s \in StreamIds, f \in Frames : SseOnMessage(s, f)
    \/ nFail < MaxFail /\ \E s \in StreamIds, fatal \in BOOLEAN : SseOnError(s, fatal)
    \/ WsOpen
    \/ nFail < MaxFail /\ WsOnError
    \/ (wsState = "open" => nFail < MaxFail) /\ WsOnClose
    \/ ConnectWebSocket
    \/ nReq < MaxReq /\ WsSendQuestion
    \/ nMsgs < MaxMsgs /\ \E f \in Frames : WsOnMessage(f)

Spec == Init /\ [][Next]_vars

\* SpecVoice: the duplex client with voice requests.
InitVoice == Init /\ client = "ws"

NextVoice ==
    \/ WsOpen
    \/ nFail < MaxFail /\ WsOnError
    \/ (wsState = "open" => nFail < MaxFail) /\ WsOnClose
    \/ ConnectWebSocket
    \/ nReq < MaxReq /\ WsSendQuestion
    \/ nMsgs < MaxMsgs /\ \E f \in VoiceFrames : WsOnMessage(f)
    \/ VoiceClick
    \/ \E supported \in BOOLEAN : MicGranted(supported)
    \/ MicDenied
    \/ \E r \in RecorderIds : DataAvailable(r)
    \/ \E t \in RecorderIds : CapTimerFires(t)
    \/ \E r \in RecorderIds : RecorderOnStop(r)
    \/ \E r \in RecorderIds, encoded \in BOOLEAN : ProcessVoiceMessage(r, encoded)
    \/ nFail < MaxFail /\ \E r \in RecorderIds : RecorderOnError(r)

SpecVoice == InitVoice /\ [][NextVoice]_vars

\* SpecVoiceFair: SpecVoice where what the browser has scheduled happens:
\* the permission request is answered, a cap timer that is set fires, a
\* queued stop event is delivered, the encoding of the audio ends.
VoiceFairness ==
    /\ WF_vars(MicDenied \/ \E supported \in BOOLEAN : MicGranted(supported))
    /\ WF_vars(\E t \in RecorderIds : CapTimerFires(t))
    /\ WF_vars(\E r \in RecorderIds : RecorderOnStop(r))
    /\ WF_vars(\E r \in RecorderIds, encoded \in BOOLEAN : ProcessVoiceMessage(r, encoded))

SpecVoiceFair == InitVoice /\ [][NextVoice]_vars /\ VoiceFairness

\* SpecScenario: one session of either client that receives messages of
\* Scenario in any order.
NextScenario ==
    \/ nReq < MaxReq /\ SseSendQuestion
    \/ WsOpen
    \/ nReq < MaxReq /\ WsSendQuestion
    \/ nMsgs < Len(Scenario) /\ \E s \in StreamIds, f \in ScenarioFrames : SseOnMessage(s, f)
    \/ nMsgs < Len(Scenario) /\ \E f \in ScenarioFrames : WsOnMessage(f)

SpecScenario == Init /\ [][NextScenario]_vars

\* SpecReducer: the reducer under sequences of code-0 messages of one
\* session, for either client.  FragA and FragB are two text fragments; a
\* data slot also receives JSON fragments.
FragA == <<"x=1">>
FragB == <<"done">>

ReducerMessages ==
    {Msg(Undefined, 0, t, "start") : t \in Types}
        \cup {Msg(FragA, 0, t, "in_progress") : t \in Types}
        \cup {Msg(FragA, 0, t, "end") : t \in Types}
        \cup {Msg(FragB, 0, t, "in_progress") : t \in {"code", "result"}}
        \cup {Msg(a, 0, "data", "in_progress") : a \in {RecordsAB12, RecordsC5}}
        \cup {Msg(FragA, 0, "code", "paused"), Msg(RecordsAB12, 0, "data", "paused"),
              Msg(FragB, 0, "result", Absent), Msg(FragA, 0, "text", Absent)}
        \cup {Msg(FragB, 1, "result", "in_progress"), Msg(FragA, 1, "chart", Absent)}

\* the state of the slot of content type t: Accumulating while the type has
\* a live handle, Finalized when its last section was finalized, else Absent
SlotState(t) ==
    IF active[t] # 0 THEN "Accumulating"
    ELSE IF \E i \in 1..Len(sections) : sections[i].type = t THEN "Finalized"
    ELSE "Absent"

\* eventSource.onmessage of stream s with a code-0 envelope around m
SseFragment(s, m) ==
    /\ client = "sse"
    /\ streams[s] = "open"
    /\ LET S2 == SseOnMessageBody(St, s, Envelope(0, m))
       IN  /\ Commit(S2)
           /\ last' = FrameEvent(Envelope(0, m), S2.handled, S2.raised, sessionOpen # {})
    /\ sessionOpen' = IF m.finished = 1 THEN sessionOpen \ {s} ELSE sessionOpen
    /\ nMsgs' = nMsgs + 1
    /\ delivered' = m
    /\ slotBefore' = SlotState(NormalizeType(m.content_type))
    /\ UNCHANGED <<nReq, nFail, nVoice, scen, interrupted, click>>

\* websocket.onmessage with a code-0 envelope around m
WsFragment(m) ==
    /\ client = "ws"
    /\ wsState = "open"
    /\ LET S2 == WsOnMessageBody(St, Envelope(0, m))
       IN  /\ Commit(S2)
           /\ last' = FrameEvent(Envelope(0, m), S2.handled, S2.raised, sessionOpen # {})
    /\ sessionOpen' = IF m.finished = 1 THEN {} ELSE sessionOpen
    /\ nMsgs' = nMsgs + 1
    /\ delivered' = m
    /\ slotBefore' = SlotState(NormalizeType(m.content_type))
    /\ UNCHANGED <<nReq, nFail, nVoice, scen, interrupted, click>>

NextReducer ==
    \/ nReq < MaxReq /\ SseSendQuestion
    \/ WsOpen
    \/ nMsgs < MaxFrags /\ \E s \in StreamIds, m \in ReducerMessages : SseFragment(s, m)
    \/ nMsgs < MaxFrags /\ \E m \in ReducerMessages : WsFragment(m)

SpecReducer == Init /\ [][NextReducer]_vars

\* SpecButtons: code and data sections with clicks on the buttons that
\* finalize added.
ButtonMessages ==
    {Msg(Undefined, 0, t, cs) : t \in {"code", "data"}, cs \in {"start", "end"}}
        \cup {Msg(a, 0, "code", "in_progress") : a \in {FragA, FragB}}
        \cup {Msg(a, 0, "data", "in_progress") : a \in {RecordsAB12, RecordsC5}}

\* the user clicks the copy button of code section i
CopyClick(i) ==
    /\ i \in 1..Len(sections)
    /\ sections[i].copyButtons > 0
    /\ click' = CopyButtonOnClick(i)
    /\ last' = Event("copyClick", FALSE)
    /\ UNCHANGED <<client, csm, nDocs, active, sections, loading, sendDisabled,
                   voiceDisabled, nErrors, nReq, nMsgs, nFail, eventSource,
                   streams, settled, wsState, reconnectTimers, sent,
                   isRecording, micPending, recorders, mediaRecorder,
                   audioChunks, capTimers, recordingTimeout, nVoice,
                   sessionOpen, scen, delivered, slotBefore, interrupted>>

\* the user clicks the export button of data section i
ExportClick(i) ==
    /\ i \in 1..Len(sections)
    /\ sections[i].exportButtons > 0
    /\ click' = ExportTableToCSV(i)
    /\ last' = Event("exportClick", FALSE)
    /\ UNCHANGED <<client, csm, nDocs, active, sections, loading, sendDisabled,
                   voiceDisabled, nErrors, nReq, nMsgs, nFail, eventSource,
                   streams, settled, wsState, reconnectTimers, sent,
                   isRecording, micPending, recorders, mediaRecorder,
                   audioChunks, capTimers, recordingTimeout, nVoice,
                   sessionOpen, scen, delivered, slotBefore, interrupted>>

NextButtons ==
    \/ nReq < MaxReq /\ SseSendQuestion
    \/ WsOpen
    \/ nMsgs < MaxFrags /\ \E s \in StreamIds, m \in ButtonMessages : SseFragment(s, m)
    \/ nMsgs < MaxFrags /\ \E m \in ButtonMessages : WsFragment(m)
    \/ \E i \in 1..MaxFrags : CopyClick(i)
    \/ \E i \in 1..MaxFrags : ExportClick(i)

SpecButtons == Init /\ [][NextButtons]_vars

\* SpecData: data sections fed with every shape of data fragment
NotJson == <<"**", "not json", "**">>

DataMessages ==
    {Msg(Undefined, 0, "data", cs) : cs \in {"start", "end"}}
        \cup {Msg(a, 0, "data", "in_progress") :
                 a \in {RecordsAB12, RecordsAB34, RecordsC5, ListRow, ArrayOfNull,
                        EmptyArray, ScalarFive, SingleObject, JsonNull, FragB,
                        NotJson}}
        \cup {Msg(FragB, 0, "data", "paused")}

NextData ==
    \/ nReq < MaxReq /\ SseSendQuestion
    \/ WsOpen
    \/ nMsgs < MaxFrags /\ \E s \in StreamIds, m \in DataMessages : SseFragment(s, m)
    \/ nMsgs < MaxFrags /\ \E m \in DataMessages : WsFragment(m)

SpecData == Init /\ [][NextData]_vars

\* SpecStart: start messages that carry an answer, for every content type
\* (an unknown one included), among fragments and end messages
StartMessages ==
    {Msg(FragA, 0, t, "start") : t \in Types \cup {"chart"}}
        \cup {Msg(RecordsAB12, 0, "data", "start")}
        \cup {Msg(FragB, 0, t, "in_progress") : t \in {"code", "result"}}
        \cup {Msg(Undefined, 0, t, "end") : t \in {"code", "data"}}

NextStart ==
    \/ nReq < MaxReq /\ SseSendQuestion
    \/ WsOpen
    \/ nMsgs < MaxFrags /\ \E s \in StreamIds, m \in StartMessages : SseFragment(s, m)
    \/ nMsgs < MaxFrags /\ \E m \in StartMessages : WsFragment(m)

SpecStart == Init /\ [][NextStart]_vars

\* SpecReconnect: the duplex client under repeated socket errors and
\* closures.  A reconnect timer that was set fires after its delay.
NextReconnect ==
    \/ WsOpen
    \/ nFail < MaxClose /\ WsOnError
    \/ (wsState = "open" => nFail < MaxClose) /\ WsOnClose
    \/ ConnectWebSocket
    \/ nReq < MaxReq /\ WsSendQuestion
    \/ nMsgs < MaxMsgs /\ \E f \in VoiceFrames : WsOnMessage(f)

SpecReconnect == InitVoice /\ [][NextReconnect]_vars /\ WF_vars(ConnectWebSocket)

\* ----------------------------------------------------------------- claims

\* C1: once a code-0 message carrying finished=1 has been processed (here:
\* to its end, without an exception, and with a current document), no
\* content-type slot holds a live handle any more, and the section each slot
\* was accumulating has had its finalize side effect exactly once.
C1_AllSlotsFinalizedAtFinish ==
    (last.ev = "message" /\ last.frame = "zero" /\ last.fin /\ ~last.threw) =>
        /\ \A t \in Types : active[t] = 0
        /\ \A i \in 1..Len(sections) :
              (\A j \in (i + 1)..Len(sections) : sections[j].type # sections[i].type)
                  => sections[i].finalized = 1

\* C2: processing any code-0 message with finished=1 makes the session
\* terminal: the current streaming document is released and the loading
\* indicator and the send control are cleared, whatever else the message
\* carries.
C2_FinishedMakesTerminal ==
    (last.ev = "message" /\ last.frame = "zero" /\ last.fin) =>
        (csm = 0 /\ ~loading /\ ~sendDisabled)

\* C3: for the scenario code start, code "x=1", result start, code end,
\* result "done", finished: the code section holds x=1 and is finalized
\* from the code end on, before the terminal message; after the terminal
\* message the result section holds done and is finalized.
C3_ScenarioOutcome ==
    /\ scen \in {4, 5, 6} =>
          /\ Len(sections) >= 1
          /\ sections[1].type = "code"
          /\ sections[1].text = <<"x=1">>
          /\ sections[1].finalized = 1
          /\ active["code"] = 0
    /\ scen = 6 =>
          /\ Len(sections) >= 2
          /\ sections[2].type = "result"
          /\ sections[2].blocks = <<(<<"done">>)>>
          /\ sections[2].finalized = 1
          /\ active["result"] = 0

\* C4: while a session is open (a request was transmitted and neither a
\* finished=1 message nor a transport failure was observed) the send control
\* is disabled.
C4_BusyWhileSessionOpen == sessionOpen # {} => sendDisabled

\* C5: after a failure (socket error or closure during a session, a request
\* submitted while the socket is not open, an event-stream error, an
\* exception while handling a message) the loading indicator is hidden and
\* the send control is enabled.
C5_BusyClearedAfterFailure ==
    (last.fail /\ last.frame \notin {"unparseable", "jsonnull"}) =>
        (~loading /\ ~sendDisabled)

\* C6: every failure that prevents a session from completing (transport
\* error, failed send, exception raised while processing a message) adds a
\* visible error message to the document.
C6_FailureShowsError ==
    [][(last'.fail /\ last'.frame \notin {"unparseable", "jsonnull"})
          => nErrors' > nErrors]_vars

\* C7: processing an envelope whose code is not 0 renders an error in the
\* session document: an error section is created or extended, or an error
\* message is added.
C7_NonZeroCodeRendersError ==
    [][last'.frame = "nonzero" =>
          \/ nErrors' > nErrors
          \/ \E i \in 1..Len(sections') :
                /\ sections'[i].type = "error"
                /\ (i > Len(sections) \/ sections'[i] # sections[i])]_vars

\* C8: processing an envelope whose code is not 0 leaves every slot, every
\* section and the session status (document, busy state, stream handles,
\* promise, open sessions) unchanged, also when its data carries finished=1.
C8_NonZeroCodeIgnored ==
    [][last'.frame = "nonzero" =>
          UNCHANGED <<csm, nDocs, active, sections, loading, sendDisabled,
                      voiceDisabled, nErrors, eventSource, streams, settled,
                      sessionOpen>>]_vars

\* a non-zero envelope carrying finished=1 was processed in the middle of a
\* session: a section is live and the session is still open
C8_Witness ==
    /\ last.frame = "nonzero" /\ last.fin
    /\ csm # 0
    /\ \E t \in Types : active[t] # 0 /\ sections[active[t]].doc = csm

\* C9: an unparseable frame is dropped: slots, sections, the current
\* document and the busy state are unchanged, no request is failed (no
\* promise is settled, no error message is added).
C9_UnparseableDropped ==
    [][last'.frame = "unparseable" =>
          UNCHANGED <<csm, active, sections, loading, sendDisabled, nErrors,
                      settled, streams, eventSource>>]_vars

\* C10: every message that reaches the reducer is dispatched to exactly one
\* of the five slots: to the slot named by content_type when that is one of
\* the five names, to text for any other value and when it is absent.
C10_NormalizationTotal ==
    [][(/\ last'.ev = "message" /\ last'.frame = "zero" /\ ~last'.nodata
        /\ (client = "sse" => csm # 0))
          => /\ Cardinality(last'.slots) = 1
             /\ last'.slots \subseteq Types
             /\ last'.ct \in Types => last'.slots = {last'.ct}
             /\ last'.ct \notin Types => last'.slots = {"text"}]_vars

\* a message with an unknown content_type was dispatched to the text slot,
\* which now holds a live text section
C10_Witness ==
    /\ last.ev = "message" /\ last.ct = "chart"
    /\ last.slots = {"text"}
    /\ active["text"] # 0
    /\ sections[active["text"]].type = "text"

\* C11: a message whose content_status is absent or not one of start,
\* in_progress, end has the outcome of the same message with status
\* in_progress; when its slot is Accumulating the live section stays the
\* live section, no section is created and the fragment changes its payload.
C11_UnknownStatusAppends ==
    [][(/\ last'.ev = "message" /\ ~last'.threw
        /\ delivered'.content_status \notin {"start", "in_progress", "end"}
        /\ (client = "sse" => csm # 0))
          => LET m2 == [delivered' EXCEPT !.content_status = "in_progress"]
                 S2 == IF client = "sse"
                       THEN HandleStreamingMessage(St, Envelope(0, m2))
                       ELSE HandleWebSocketMessage(St, Envelope(0, m2))
             IN  /\ sections' = S2.sections
                 /\ active' = S2.active
                 /\ csm' = S2.csm
                 /\ \A t \in last'.slots :
                       active[t] # 0 =>
                          /\ active'[t] = active[t]
                          /\ Len(sections') = Len(sections)
                          /\ sections'[active[t]] # sections[active[t]]]_vars

\* a code message with the unrecognized status paused arrived while the code
\* slot was Accumulating: its fragment follows the earlier one in the buffer
C11_Witness ==
    /\ last.ev = "message" /\ ~last.threw
    /\ delivered.content_status = "paused"
    /\ delivered.content_type = "code"
    /\ active["code"] # 0
    /\ sections[active["code"]].text = FragA \o FragA

\* C12: a message with content_type X (text when X is not one of the five
\* names) changes only slot X: the live handle of every other slot and every
\* section of another content type are the same before and after the
\* message, and a section the message creates is of type X.
C12_OnlyOwnSlotChanges ==
    [][last'.ev = "message" =>
          LET X == IF delivered'.content_type \in Types
                   THEN delivered'.content_type ELSE "text"
          IN  /\ Len(sections') >= Len(sections)
              /\ \A u \in Types \ {X} : active'[u] = active[u]
              /\ \A i \in 1..Len(sections) :
                    sections[i].type # X => sections'[i] = sections[i]
              /\ \A i \in (Len(sections) + 1)..Len(sections') :
                    sections'[i].type = X]_vars

\* interleaved fragments: code x=1, a result fragment, then code done; the
\* code section holds both code fragments and the result section its own
C12_Witness ==
    /\ last.ev = "message" /\ delivered.content_type = "code"
    /\ active["code"] # 0 /\ active["result"] # 0
    /\ active["result"] > active["code"]
    /\ sections[active["code"]].text = FragA \o FragB
    /\ Len(sections[active["result"]].blocks) = 1

\* C13: in every reachable state each content type has at most one section
\* that is Accumulating (initialized, not finalized and not replaced), and
\* that section is the one the live handle of the type refers to.
C13_OneAccumulatingPerType ==
    \A t \in Types :
        LET acc == {i \in 1..Len(sections) :
                       /\ sections[i].type = t
                       /\ sections[i].finalized = 0
                       /\ ~sections[i].replaced}
        IN  /\ Cardinality(acc) <= 1
            /\ acc = IF active[t] = 0 THEN {} ELSE {active[t]}

\* a content type with a finalized section and, after it, a live section
\* that has received a fragment
C13_Witness ==
    \E t \in Types :
        /\ active[t] # 0
        /\ sections[active[t]].text # <<>> \/ sections[active[t]].blocks # <<>>
        /\ \E i \in 1..(active[t] - 1) :
              sections[i].type = t /\ sections[i].finalized = 1

\* C14: when a message with status end arrives for a content type that has
\* no section yet, a section of that type is created in the session
\* document, the fragment of the message is applied to it, and it is
\* finalized at once: the slot holds no live handle afterwards.
C14_EndOnAbsentCreatesSection ==
    [][(/\ last'.ev = "message" /\ delivered'.content_status = "end"
        /\ delivered'.content_type \in Types
        /\ (client = "sse" => csm # 0)
        /\ \A i \in 1..Len(sections) : sections[i].type # delivered'.content_type)
          => /\ Len(sections') = Len(sections) + 1
             /\ sections'[Len(sections')].type = delivered'.content_type
             /\ sections'[Len(sections')].finalized = 1
             /\ \/ sections'[Len(sections')].text # <<>>
                \/ sections'[Len(sections')].blocks # <<>>
             /\ active'[delivered'.content_type] = 0]_vars

\* C15: when a slot is Accumulating and a message with status end carries a
\* non-empty answer, the payload of the live section (code buffer, blocks or
\* table rows) has grown by that fragment when the section is finalized.
C15_TrailingFragmentApplied ==
    [][(/\ last'.ev = "message" /\ delivered'.content_status = "end"
        /\ delivered'.content_type \in Types
        /\ IsString(delivered'.answer) /\ delivered'.answer # <<>>
        /\ active[delivered'.content_type] # 0)
          => LET i == active[delivered'.content_type]
             IN  /\ sections'[i].finalized = 1
                 /\ \/ Len(sections'[i].text) > Len(sections[i].text)
                    \/ Len(sections'[i].blocks) > Len(sections[i].blocks)
                    \/ Len(sections'[i].rows) > Len(sections[i].rows)]_vars

\* C16: when the slot of a content type is Finalized (its section in the
\* current document was finalized and the type has no live handle), a
\* message of that type with status in_progress, or with an absent or
\* unrecognized status, changes no section, creates none and leaves the slot
\* without a live handle.
C16_StrayAfterFinalizeIgnored ==
    [][(/\ last'.ev = "message"
        /\ delivered'.content_status \notin {"start", "end"}
        /\ delivered'.content_type \in Types
        /\ csm # 0
        /\ active[delivered'.content_type] = 0
        /\ \E i \in 1..Len(sections) :
              /\ sections[i].type = delivered'.content_type
              /\ sections[i].doc = csm
              /\ sections[i].finalized = 1)
          => /\ sections' = sections
             /\ active'[delivered'.content_type] = 0]_vars

\* C17: an end message for a slot that is already Finalized is a no-op: the
\* sections with their finalize side effects (copy button, export button,
\* completed mark), the live handles, the current document and the error
\* messages are unchanged, and no exception is raised.
C17_SecondEndIsNoOp ==
    [][(/\ last'.ev = "message" /\ delivered'.content_status = "end"
        /\ delivered'.finished = 0
        /\ slotBefore' = "Finalized")
          => /\ sections' = sections
             /\ active' = active
             /\ nErrors' = nErrors
             /\ (csm # 0 => csm' = csm)
             /\ ~last'.threw]_vars

\* a second end arrived for a code section that was finalized before: the
\* section still has one copy button
C17_Witness ==
    /\ last.ev = "message" /\ delivered.content_status = "end"
    /\ delivered.content_type = "code"
    /\ slotBefore = "Finalized"
    /\ \E i \in 1..Len(sections) :
          /\ sections[i].type = "code" /\ sections[i].text # <<>>
          /\ sections[i].finalized = 1 /\ sections[i].copyButtons = 1

\* C18: a start message for a content type whose slot is Accumulating
\* appends a fresh empty section of the type (for data with no header
\* established) and makes it the live one; the replaced section keeps its
\* payload and is not finalized, and no later step changes a replaced
\* section: later fragments of the type go to the new section only.
C18_StartReplacesLiveSection ==
    [][/\ \A i \in 1..Len(sections) :
             sections[i].replaced =>
                (Len(sections') >= i /\ sections'[i] = sections[i])
       /\ (/\ last'.ev = "message" /\ delivered'.content_status = "start"
           /\ delivered'.content_type \in Types
           /\ slotBefore' = "Accumulating")
             => LET t == delivered'.content_type
                    old == active[t]
                    new == Len(sections) + 1
                IN  /\ Len(sections') = new
                    /\ active'[t] = new
                    /\ sections'[new] = NewSection(sections'[new].doc, t)
                    /\ ~sections'[new].headerInitialized
                    /\ sections'[old] = [sections[old] EXCEPT !.replaced = TRUE]
                    /\ sections'[old].finalized = 0
                    /\ \A i \in 1..Len(sections) :
                          i # old => sections'[i] = sections[i]]_vars

\* a data section with header a, b was replaced by a start; the fragment
\* that followed went to the new section, whose header is its own
C18_Witness ==
    /\ last.ev = "message" /\ delivered.content_type = "data"
    /\ active["data"] = 2 /\ Len(sections) = 2
    /\ sections[1].replaced /\ sections[1].finalized = 0
    /\ sections[1].header = <<(<<"a", "b">>)>> /\ Len(sections[1].rows) = 1
    /\ sections[2].header = <<(<<"c">>)>> /\ sections[2].rows = <<(<<"5">>)>>

\* C19: a fragment delivered into a live section that already holds earlier
\* fragments is rendered after them: the rendered payload of the section
\* before the message is a prefix of its rendered payload after it.
C19_FragmentsKeepOrder ==
    [][(/\ last'.ev = "message" /\ ~last'.threw
        /\ delivered'.content_status \notin {"start", "end"}
        /\ delivered'.content_type \in Types
        /\ slotBefore' = "Accumulating")
          => LET i == active[delivered'.content_type]
                 before == Rendered(sections[i])
                 after == Rendered(sections'[i])
             IN  /\ Len(after) >= Len(before)
                 /\ SubSeq(after, 1, Len(before)) = before]_vars

C21_NoSectionSharedAcrossSessions ==
    [][(/\ last'.ev = "message" /\ ~last'.threw
        /\ (client = "sse" => csm # 0))
          => LET D == IF csm # 0 THEN csm ELSE nDocs'
             IN  \A i \in 1..Len(sections') :
                    (\/ i > Len(sections)
                     \/ [sections'[i] EXCEPT !.replaced = FALSE]
                          # [sections[i] EXCEPT !.replaced = FALSE])
                       => sections'[i].doc = D]_vars

\* C22: after the duplex socket closed while a session was open and was
\* opened again, a message that arrives before the user submits a request
\* changes no section of the interrupted session's document and creates
\* none in it.
C22_ReconnectIsUnrelated ==
    [][last'.ev = "message" =>
          \A i \in 1..Len(sections') :
             (\/ i > Len(sections)
              \/ [sections'[i] EXCEPT !.replaced = FALSE]
                   # [sections[i] EXCEPT !.replaced = FALSE])
                => sections'[i].doc \notin interrupted]_vars

\* C23: every closure of the duplex socket leaves exactly one reconnect
\* timer pending, set to 3000 ms, and is eventually followed by a new
\* connection attempt, also after consecutive closures.
C23_ReconnectAlways ==
    /\ [](wsState = "closed" => reconnectTimers = <<3000>>)
    /\ (wsState = "closed") ~> (wsState = "connecting" /\ last.ev = "reconnect")

\* a new connection attempt after the second closure in a row
C23_Witness ==
    /\ wsState = "connecting" /\ last.ev = "reconnect"
    /\ nFail >= 2 /\ sent = 0 /\ nMsgs = 0
    /\ reconnectTimers = <<>>

\* C24: a request is handed to the socket only by the submission itself and
\* only while the socket is open; a request submitted while the socket is
\* not open is not transmitted, and no other step (opening, reconnecting,
\* receiving) transmits anything.
C24_NoReplayOfUnsentRequests ==
    [][/\ sent' # sent =>
             /\ last'.ev \in {"sendQuestion", "processVoice"}
             /\ wsState = "open"
             /\ sent' = sent + 1
       /\ (last'.ev = "sendQuestion" /\ wsState # "open") => sent' = sent]_vars

\* a request was submitted while the socket was not open; after a failure
\* the socket was opened again and nothing has been transmitted
C24_Witness ==
    /\ nReq = 1 /\ sent = 0
    /\ nFail >= 1
    /\ wsState = "open" /\ last.ev = "wsOpen"

\* C25: when the transport fails in the middle of a session (event-stream
\* error, socket error or closure, here right after an event that raised no
\* exception), afterwards no content type has a live
\* handle, and the failure ran no finalize side effect: every section that
\* existed is unchanged.
C25_AbruptCloseReleasesHandles ==
    [][(/\ last'.ev \in {"sseError", "wsError", "wsClose"} /\ last'.fail
        /\ ~last.threw)
          => /\ \A t \in Types : active'[t] = 0
             /\ sections' = sections]_vars

\* C26: the event-stream handle is released on every exit path of a
\* session: once the promise of a request is settled (resolved by the
\* finished=1 message, or rejected by an error), its stream is closed.
C26_StreamReleasedOnEveryExit ==
    \A s \in StreamIds : settled[s] => streams[s] = "closed"

\* C27: a click on the copy button of a finalized code section, at any later
\* time, writes to the clipboard exactly the buffer of that section.
C27_CopyYieldsOwnBuffer ==
    [][last'.ev = "copyClick" =>
          /\ ~click'.threw
          /\ click'.produced
          /\ click'.out = sections[click'.section].text]_vars

\* C28: a click on the export button of a finalized data section, at any
\* later time, exports the header and the rows of that section.
C28_ExportYieldsOwnTable ==
    [][last'.ev = "exportClick" =>
          /\ click'.produced
          /\ click'.out = CsvOfTable(sections[click'.section])]_vars

\* C29: within one data section the header row is established at most once,
\* from the keys of the first parsed record fragment (a single record or an
\* array whose first element is a record); a fragment changes the header in
\* no other case, and every fragment leaves the rows before it in place and
\* adds its rows after them.
C29_HeaderOnceFromFirstRecords ==
    [][(/\ last'.ev = "message"
        /\ delivered'.content_type = "data"
        /\ delivered'.content_status = "in_progress"
        /\ IsString(delivered'.answer)
        /\ slotBefore' = "Accumulating")
          => LET i == active["data"]
                 p == JsonParse(delivered'.answer)
                 ofArray == p.ok /\ p.k = "array" /\ Len(p.elems) > 0
                 isRecords == p.ok /\ (p.k = "object" \/
                                 (ofArray /\ p.elems[1].k = "object"))
                 keys == IF p.k = "object" THEN p.keys ELSE p.elems[1].keys
             IN  /\ Len(sections'[i].header) <= 1
                 /\ sections'[i].header # sections[i].header
                       => /\ sections[i].header = <<>>
                          /\ isRecords
                          /\ sections'[i].header = <<keys>>
                 /\ (isRecords /\ sections[i].header = <<>>)
                       => sections'[i].header = <<keys>>
                 /\ Len(sections'[i].rows) >= Len(sections[i].rows)
                 /\ SubSeq(sections'[i].rows, 1, Len(sections[i].rows))
                       = sections[i].rows]_vars

\* C30: a data fragment that does not parse as JSON, delivered while the data
\* slot is Accumulating, is appended to the live data section as one text
\* block (the fragment as formatText renders it): no exception, no error
\* shown, no section created, the header and the rows of the table and every
\* other section unchanged, and the slot keeps its live handle.
C30_UnparsedFragmentKeptAsText ==
    [][(/\ last'.ev = "message"
        /\ delivered'.content_type = "data"
        /\ NormalizeStatus(delivered'.content_status) = "in_progress"
        /\ IsString(delivered'.answer)
        /\ ~JsonParse(delivered'.answer).ok
        /\ slotBefore' = "Accumulating")
          => LET i == active["data"]
             IN  /\ ~last'.threw
                 /\ nErrors' = nErrors
                 /\ active' = active
                 /\ Len(sections') = Len(sections)
                 /\ sections'[i] =
                       [sections[i] EXCEPT
                           !.blocks = Append(@, FormatText(delivered'.answer))]
                 /\ sections'[i].header = sections[i].header
                 /\ sections'[i].rows = sections[i].rows
                 /\ \A j \in 1..Len(sections) :
                       j # i => sections'[j] = sections[j]]_vars

\* a table with header a, b and one row took a fragment that is not JSON:
\* the fragment sits in a text block of the live section
C30_Witness ==
    /\ last.ev = "message" /\ ~last.threw
    /\ delivered = Msg(NotJson, 0, "data", "in_progress")
    /\ slotBefore = "Accumulating"
    /\ active["data"] = 1
    /\ sections[1].header = <<(<<"a", "b">>)>>
    /\ sections[1].rows = <<(<<"1", "2">>)>>
    /\ sections[1].blocks = <<(<<"<strong>", "not json", "</strong>">>)>>

\* C31: no renderer operation raises for any message content: a code-0
\* message with data, whatever its content type, status and answer (absent
\* included), is processed without an exception leaving the reducer.
C31_RendererNeverRaises ==
    (last.ev = "message" /\ last.frame = "zero" /\ ~last.nodata) => ~last.threw

\* C33: under every interleaving of clicks on the voice button with the
\* pending permission request, at most one recorder records and at most one
\* cap timer is pending at a time, and every microphone stream that was
\* acquired is eventually stopped.
C33_OneRecorderOneTimer ==
    /\ [](/\ Cardinality({r \in 1..Len(recorders) :
                             recorders[r].state = "recording"}) <= 1
          /\ Cardinality(capTimers) <= 1)
    /\ \A r \in RecorderIds :
          (r <= Len(recorders) /\ recorders[r].streamLive)
              ~> (r <= Len(recorders) /\ ~recorders[r].streamLive)

\* C32: once a recording has started it does not stay active: with or
\* without a stop by the user the recorder that was started is eventually
\* stopped and its cap timer is no longer pending (the timer has fired or
\* was cleared).
C32_CapEndsRecording ==
    \A r \in RecorderIds :
        (r <= Len(recorders) /\ recorders[r].state = "recording")
            ~> (/\ r <= Len(recorders)
                /\ recorders[r].state # "recording"
                /\ r \notin capTimers)

\* C34: in the event-stream client at most one event stream is open at any
\* time, and whenever a new request can be submitted (the send control is
\* enabled) the stream of every earlier request has been closed.
C34_AtMostOneStreamOpen ==
    client = "sse" =>
        /\ Cardinality({s \in StreamIds : streams[s] = "open"}) <= 1
        /\ ~sendDisabled => \A s \in StreamIds : streams[s] # "open"

\* C35: in the duplex client the number of sockets that are connecting or
\* open (or erroring, before their close event) plus the number of pending
\* reconnect timers is at most one in every reachable state; each closure
\* schedules exactly one reconnect, an error event alone schedules none, and
\* a reconnect never starts while a socket is live.
C35_OneSocketOrOneTimer ==
    /\ []((IF wsState \in {"connecting", "open", "errored"} THEN 1 ELSE 0)
             + Len(reconnectTimers) <= 1)
    /\ [][/\ last'.ev = "wsClose" => Len(reconnectTimers') = Len(reconnectTimers) + 1
          /\ last'.ev = "wsError" => reconnectTimers' = reconnectTimers
          /\ last'.ev = "reconnect" => wsState = "closed"]_vars

\* the socket closed for the second time, the first time after an error
\* event: one timer is pending and no socket is live
C35_Witness ==
    /\ client = "ws" /\ last.ev = "wsClose" /\ wsState = "closed"
    /\ nFail = 2 /\ nErrors >= 1 /\ nReq = 0
    /\ reconnectTimers = <<ReconnectDelay>>

C37_StartIgnoresAnswer ==
    [][(/\ last'.ev = "message"
        /\ delivered'.content_status = "start"
        /\ IsString(delivered'.answer))
          => LET t == NormalizeType(delivered'.content_type)
                 new == Len(sections) + 1
             IN  /\ ~last'.threw
                 /\ Len(sections') = new
                 /\ active'[t] = new
                 /\ sections'[new] = NewSection(sections'[new].doc, t)
                 /\ Rendered(sections'[new]) = <<>>
                 /\ \A i \in 1..Len(sections) :
                       Rendered(sections'[i]) = Rendered(sections[i])]_vars

\* a start message with an answer arrived for the code slot, which was
\* Finalized: the slot is live again with an empty section
C37_Witness ==
    /\ last.ev = "message" /\ delivered = Msg(FragA, 0, "code", "start")
    /\ slotBefore = "Finalized"
    /\ Len(sections) = 2 /\ active["code"] = 2
    /\ sections[1].finalized = 1 /\ sections[1].text = FragB
    /\ sections[2].text = <<>>

\* C38: every data fragment appended to a live data section produces visible
\* output exactly once: it adds rows to the table or one text block to the
\* section, and never both and never neither.
C38_DataFragmentShownOnce ==
    [][(/\ last'.ev = "message"
        /\ delivered'.content_type = "data"
        /\ NormalizeStatus(delivered'.content_status) = "in_progress"
        /\ IsString(delivered'.answer)
        /\ slotBefore' = "Accumulating")
          => LET i == active["data"]
                 asRows == Len(sections'[i].rows) > Len(sections[i].rows)
                 asText == Len(sections'[i].blocks) > Len(sections[i].blocks)
             IN  asRows # asText]_vars

\* C39: after a voice recording has stopped the loading indicator is hidden
\* without a server message being needed when nothing was transmitted: once
\* every recorder has stopped and everything the stop scheduled has run (stop
\* event handled, audio processed, no permission request pending), with no
\* request transmitted and no question typed, the loading indicator is
\* hidden.
C39_LoadingHiddenAfterVoice ==
    (/\ client = "ws"
     /\ Len(recorders) > 0 /\ ~isRecording /\ micPending = 0
     /\ \A r \in 1..Len(recorders) :
           /\ recorders[r].state # "recording"
           /\ ~recorders[r].stopQueued
           /\ ~recorders[r].processing
     /\ sent = 0 /\ nReq = 0)
        => ~loading

\* C40: finishStreaming never runs without a current streaming document:
\* whenever a message carrying finished=1 reaches the call of finishStreaming
\* (the handler did not return early and its dispatch raised no exception),
\* the current document is non-null at that point, finishStreaming raises
\* nothing and leaves no current document; also for messages that arrive
\* after a finished=1 message or with no request pending.
C40_FinishHasDocument ==
    [][(/\ last'.ev = "message" /\ delivered'.finished = 1
        /\ (client = "sse" => csm # 0))
          => LET S0 == IF csm = 0 THEN CreateStreamingMessage(St) ELSE St
                 atFinish == Dispatch(S0, delivered')
             IN  ~atFinish.threw
                    => /\ atFinish.csm # 0
                       /\ ~last'.threw
                       /\ csm' = 0]_vars

\* the duplex client finished a second document: the second message with
\* finished=1 arrived after the first one, with no document present
C40_Witness ==
    /\ client = "ws" /\ last.ev = "message" /\ last.fin /\ ~last.threw
    /\ delivered.finished = 1
    /\ nDocs = 2 /\ csm = 0 /\ nMsgs = 2

====
